---------------------------- MODULE Spec2Model ----------------------------
(***************************************************************************)
(* Model of the Inspect RPC server (inspect/rpc/rpc.go): the route table,  *)
(* the transport-config mapper, the handler composition (websocket         *)
(* endpoint, JSON-RPC routes, optional CORS wrapper), the websocket        *)
(* disconnect cleanup and the ListenAndServe / ListenAndServeTLS           *)
(* lifecycle with its cancellation watcher.                                *)
(*                                                                         *)
(* Each component has its own specification over the shared variables:     *)
(*   SpecRoutes     Routes                                                 *)
(*   SpecConfig     serverRPCConfig                                        *)
(*   SpecHandler    Handler, addCORSHandler and one request through them   *)
(*   SpecWebsocket  websocket connections and websocketDisconnectFn        *)
(*   Spec           ListenAndServe / ListenAndServeTLS                     *)
(* FairSpec and FairSpecWebsocket add the scheduler's fairness.            *)
(***************************************************************************)
EXTENDS Integers, Sequences, FiniteSets, TLC

\* ------------------------------------------------------------------ bounds

\* Width in bits of the model's signed duration type (Go: int64).
DurationBits == 4

\* Largest value of MaxBodyBytes / MaxHeaderBytes drawn for a configuration.
MaxBytes == 1

\* Largest number of transport configurations kept in the history.
MaxStarts == 2

\* Largest block height a store of the query environment may hold.
MaxHeight == 2

\* Number of websocket connections.
NumWsConns == 4

\* Number of connections the serve loop may accept.
NumConns == 2

\* ------------------------------------------------------------- durations

\* time.Second, in the model's time unit.
Second == 1

DurMod == 2 ^ DurationBits

MinDuration == -(2 ^ (DurationBits - 1))

MaxDuration == (2 ^ (DurationBits - 1)) - 1

Durations == MinDuration..MaxDuration

\* Two's-complement wrap-around of the duration type.
WrapDuration(x) == ((x - MinDuration) % DurMod) + MinDuration

\* Go's + on time.Duration.
AddDuration(a, b) == WrapDuration(a + b)

\* --------------------------------------------------------------- state

VARIABLES
    env,                  \* the stores handed to Routes
    routes,               \* the rpccore.RoutesMap, <<>> before Routes has run
    rpcConfig,            \* the *config.RPCConfig the server was given
    defaultWriteTimeout,  \* WriteTimeout of rpcserver.DefaultConfig()
    transportCfgs,        \* every *server.Config produced so far, oldest first
    rootHandler,          \* the http.Handler returned by Handler, or NoHandler
    lastServed,           \* the last request served and what became of it
    wsState,              \* per websocket connection: none, connected,
                          \* disconnecting or closed
    cleanup,              \* per websocket connection: how its disconnect
                          \* callback ended and what UnsubscribeAll returned
    unsubCalls,           \* the keys UnsubscribeAll was called with, in order
    logEntries,           \* the error entries written to the websocket logger
    op,                   \* the lifecycle operation that is called
    certOk,               \* whether certFile and keyFile can be loaded
    ctxDone,              \* whether ctx has been cancelled
    cancelledAt,          \* where the operation was when ctx was cancelled:
                          \* never, before (the call) or the pc of that moment
    pc,                   \* where the lifecycle operation is: listen, spawn,
                          \* serve, accepting or returned
    ret,                  \* the error the operation returned, none before
    listener,             \* unbound, open or closed
    watcher,              \* the watcher goroutine: none, waiting, woken, done
    tasks,                \* per connection: none, inflight, done or aborted
    inflightAtCancel,     \* the connections being served when ctx was cancelled
    watcherCloses         \* how often the watcher has closed the listener

routeVars == <<env, routes>>

configVars == <<rpcConfig, defaultWriteTimeout, transportCfgs>>

handlerVars == <<rootHandler, lastServed>>

wsVars == <<wsState, cleanup, unsubCalls, logEntries>>

lifeVars ==
    <<op, certOk, ctxDone, cancelledAt, pc, ret, listener, watcher, tasks,
      inflightAtCancel, watcherCloses>>

vars ==
    <<env, routes, rpcConfig, defaultWriteTimeout, transportCfgs, rootHandler,
      lastServed, wsState, cleanup, unsubCalls, logEntries, op, certOk,
      ctxDone, cancelledAt, pc, ret, listener, watcher, tasks, inflightAtCancel,
      watcherCloses>>

\* ------------------------------------------------------ RouteTable Builder

Heights == 1..MaxHeight

\* The event sinks a caller may supply ([]indexer.EventSink).
SinkLists == {<<>>, <<"null">>, <<"kv">>, <<"psql">>}

Environments ==
    [EventSinks : SinkLists,
     StateStore : SUBSET Heights,
     BlockStore : SUBSET Heights]

\* strings.Split(args, ","), on the lexemes of the literal: the names between
\* the "," separators, in order.
RECURSIVE SplitArgs(_)
SplitArgs(args) ==
    IF args = <<>> THEN <<>>
    ELSE IF Head(args) = "," THEN SplitArgs(Tail(args))
    ELSE <<Head(args)>> \o SplitArgs(Tail(args))

\* rpcserver.NewRPCFunc(f, args, cache).
NewRPCFunc(f, args, cache) ==
    [f |-> f, argNames |-> SplitArgs(args), cache |-> cache]

\* A method value env.<name>: the method and the receiver it is bound to.
\* env is a pointer, so the value names the environment, not its contents.
Bound(e, name) == [recv |-> "env", method |-> name]

\* env := &core.Environment{...}.
NewEnvironment(store, blockStore, eventSinks) ==
    [EventSinks |-> eventSinks, StateStore |-> store, BlockStore |-> blockStore]

\* The rpccore.RoutesMap literal, over the environment e.
RoutesMap(e) ==
       ("blockchain" :> NewRPCFunc(Bound(e, "BlockchainInfo"),
              <<"minHeight", ",", "maxHeight">>, TRUE))
    @@ ("consensus_params" :> NewRPCFunc(Bound(e, "ConsensusParams"),
              <<"height">>, TRUE))
    @@ ("block" :> NewRPCFunc(Bound(e, "Block"), <<"height">>, TRUE))
    @@ ("block_by_hash" :> NewRPCFunc(Bound(e, "BlockByHash"),
              <<"hash">>, TRUE))
    @@ ("block_results" :> NewRPCFunc(Bound(e, "BlockResults"),
              <<"height">>, TRUE))
    @@ ("commit" :> NewRPCFunc(Bound(e, "Commit"), <<"height">>, TRUE))
    @@ ("validators" :> NewRPCFunc(Bound(e, "Validators"),
              <<"height", ",", "page", ",", "per_page">>, TRUE))
    @@ ("tx" :> NewRPCFunc(Bound(e, "Tx"), <<"hash", ",", "prove">>, TRUE))
    @@ ("tx_search" :> NewRPCFunc(Bound(e, "TxSearch"),
              <<"query", ",", "prove", ",", "page", ",", "per_page", ",",
                "order_by">>, FALSE))
    @@ ("block_search" :> NewRPCFunc(Bound(e, "BlockSearch"),
              <<"query", ",", "page", ",", "per_page", ",", "order_by">>,
              FALSE))

\* Routes with tx_search registered as cacheable, like its neighbours.
RoutesSearchCached(store, blockStore, eventSinks) ==
    [RoutesMap(NewEnvironment(store, blockStore, eventSinks))
        EXCEPT !["tx_search"].cache = TRUE]

\* Routes(store, blockStore, eventSinks).
Routes(store, blockStore, eventSinks) ==
    RoutesMap(NewEnvironment(store, blockStore, eventSinks))

NoRoutes == <<>>

\* The environment and route table of the specifications that are not about
\* route construction.
BuiltEnv ==
    [EventSinks |-> <<"kv">>, StateStore |-> Heights, BlockStore |-> Heights]

RoutesBuilt ==
    /\ env = BuiltEnv
    /\ routes = Routes(env.StateStore, env.BlockStore, env.EventSinks)

InitRoutes ==
    /\ env \in Environments
    /\ routes = NoRoutes

\* The caller builds the route table from its stores.
BuildRoutes ==
    /\ routes = NoRoutes
    /\ routes' = Routes(env.StateStore, env.BlockStore, env.EventSinks)
    /\ UNCHANGED <<env, configVars, handlerVars, wsVars, lifeVars>>

\* ------------------------------------------------------- Config Mapper

ByteSizes == 0..MaxBytes

\* The origins a configuration may allow, and those a request may carry
\* ("" is a request without an Origin header).
AllowedOriginSets == {{}, {"a.example"}}

RequestOrigins == {"", "a.example", "b.example"}

\* *config.RPCConfig values with the given choices for the fields.
RPCConfigs(sizes, timeouts, enabled, origins) ==
    [MaxBodyBytes : sizes,
     MaxHeaderBytes : sizes,
     TimeoutBroadcastTxCommit : timeouts,
     CorsEnabled : enabled,
     CORSAllowedOrigins : origins,
     CORSAllowedMethods : {{"HEAD", "GET", "POST"}},
     CORSAllowedHeaders : {{"Origin", "Accept", "Content-Type"}}]

\* The configuration of the specifications that are not about it.
PlainConfig ==
    CHOOSE c \in RPCConfigs({MaxBytes}, {0}, {FALSE}, {{}}) : TRUE

\* rpcserver.DefaultConfig(): a fresh config carrying the default timeouts.
DefaultConfig(d) ==
    [MaxBodyBytes |-> 0, MaxHeaderBytes |-> 0, WriteTimeout |-> d]

\* serverRPCConfig comparing with < where the code compares with <=.
serverRPCConfigStrict(r, d) ==
    LET cfg == [DefaultConfig(d) EXCEPT
                    !.MaxBodyBytes = r.MaxBodyBytes,
                    !.MaxHeaderBytes = r.MaxHeaderBytes]
    IN  IF cfg.WriteTimeout < r.TimeoutBroadcastTxCommit
        THEN [cfg EXCEPT !.WriteTimeout =
                  AddDuration(r.TimeoutBroadcastTxCommit, 1 * Second)]
        ELSE cfg

\* serverRPCConfig leaving the header limit at its default.
serverRPCConfigKeepsHeaderDefault(r, d) ==
    LET cfg == [DefaultConfig(d) EXCEPT
                    !.MaxBodyBytes = r.MaxBodyBytes]
    IN  IF cfg.WriteTimeout <= r.TimeoutBroadcastTxCommit
        THEN [cfg EXCEPT !.WriteTimeout =
                  AddDuration(r.TimeoutBroadcastTxCommit, 1 * Second)]
        ELSE cfg

\* serverRPCConfig(r), with d the default write timeout.
serverRPCConfig(r, d) ==
    LET cfg == [DefaultConfig(d) EXCEPT
                    !.MaxBodyBytes = r.MaxBodyBytes,
                    !.MaxHeaderBytes = r.MaxHeaderBytes]
    IN  IF cfg.WriteTimeout <= r.TimeoutBroadcastTxCommit
        THEN [cfg EXCEPT !.WriteTimeout =
                  AddDuration(r.TimeoutBroadcastTxCommit, 1 * Second)]
        ELSE cfg

ConfigIdle ==
    /\ rpcConfig = PlainConfig
    /\ defaultWriteTimeout = 0
    /\ transportCfgs = <<>>

InitConfig ==
    /\ rpcConfig \in RPCConfigs(ByteSizes, Durations, {FALSE}, {{}})
    /\ defaultWriteTimeout \in Durations
    /\ transportCfgs = <<>>

\* One call of serverRPCConfig(srv.Config).
MapConfig ==
    /\ Len(transportCfgs) < MaxStarts
    /\ transportCfgs' =
           Append(transportCfgs, serverRPCConfig(rpcConfig, defaultWriteTimeout))
    /\ UNCHANGED <<rpcConfig, defaultWriteTimeout>>
    /\ UNCHANGED <<routeVars, handlerVars, wsVars, lifeVars>>

\* ----------------------------------------------------- Handler Composer

NoHandler == [kind |-> "none"]

\* rpcConfig.IsCorsEnabled().
IsCorsEnabled(c) == c.CorsEnabled

\* The paths a request may name: one per route, the websocket endpoint, the
\* JSON-RPC root and a path nothing is registered for.
MethodPath(m) == "/" \o m

RequestPaths ==
    {MethodPath(m) : m \in DOMAIN RoutesMap(BuiltEnv)}
        \cup {"/websocket", "/", "/nope"}

\* preflight: an OPTIONS request carrying Access-Control-Request-Method.
Requests == [path : RequestPaths, origin : RequestOrigins, preflight : BOOLEAN]

\* http.NewServeMux() after mux.HandleFunc("/websocket", wm.WebsocketHandler)
\* and rpcserver.RegisterRPCFuncs(mux, routes, logger): the registered
\* patterns and what each leads to.
NewServeMux(rt) ==
    [kind |-> "mux",
     patterns |->
           ("/websocket" :> "websocket")
        @@ [p \in {MethodPath(m) : m \in DOMAIN rt} |-> "rpc"]
        @@ ("/" :> "jsonrpc")]

\* mux.ServeHTTP: the registered pattern matching the path; "/" matches
\* every path no other pattern does.
MuxServeHTTP(mux, req) ==
    LET target == IF req.path \in DOMAIN mux.patterns
                  THEN mux.patterns[req.path]
                  ELSE mux.patterns["/"]
    IN  [trace |-> <<"mux", target>>, path |-> req.path, corsHeaders |-> FALSE]

\* cors.New(cors.Options{AllowedOrigins, AllowedMethods, AllowedHeaders}).
CorsNew(c) ==
    [AllowedOrigins |-> c.CORSAllowedOrigins,
     AllowedMethods |-> c.CORSAllowedMethods,
     AllowedHeaders |-> c.CORSAllowedHeaders]

\* The middleware's origin test: no configured origin allows every origin.
OriginAllowed(options, origin) ==
    /\ origin # ""
    /\ \/ options.AllowedOrigins = {}
       \/ "*" \in options.AllowedOrigins
       \/ origin \in options.AllowedOrigins

\* corsMiddleware.Handler(h).ServeHTTP: a preflight request is answered by
\* the middleware and goes no further (OptionsPassthrough is not set); any
\* other request gets the CORS response headers when its origin is allowed
\* and is handed to h in either case.
CorsServeHTTP(h, req) ==
    IF req.preflight
    THEN [trace |-> <<"cors">>, path |-> req.path,
          corsHeaders |-> OriginAllowed(h.options, req.origin)]
    ELSE LET r == MuxServeHTTP(h.next, req)
         IN  [r EXCEPT !.trace = <<"cors">> \o @,
                       !.corsHeaders = OriginAllowed(h.options, req.origin)]

ServeHTTP(h, req) ==
    IF h.kind = "cors" THEN CorsServeHTTP(h, req) ELSE MuxServeHTTP(h, req)

\* addCORSHandler(rpcConfig, h).
addCORSHandler(c, h) ==
    [kind |-> "cors", options |-> CorsNew(c), next |-> h]

\* Handler that never adds the CORS wrapper.
HandlerNoCors(c, rt) == NewServeMux(rt)

\* Handler that adds the CORS wrapper whatever the configuration says.
HandlerAlwaysCors(c, rt) == addCORSHandler(c, NewServeMux(rt))

\* Handler(rpcConfig, routes, logger): the root handler.
Handler(c, rt) ==
    LET mux == NewServeMux(rt)
    IN  IF IsCorsEnabled(c) THEN addCORSHandler(c, mux) ELSE mux

NoRequest == [served |-> FALSE]

HandlerIdle ==
    /\ rootHandler = NoHandler
    /\ lastServed = NoRequest

InitHandler ==
    /\ rpcConfig \in RPCConfigs({MaxBytes}, {0}, BOOLEAN, AllowedOriginSets)
    /\ defaultWriteTimeout = 0
    /\ transportCfgs = <<>>
    /\ HandlerIdle

\* A composer that, while registering the routes, marks tx_search as
\* cacheable in the table it was given.
BuildHandlerEditsRoutes ==
    /\ rootHandler = NoHandler
    /\ rootHandler' = Handler(rpcConfig, routes)
    /\ routes' = [routes EXCEPT !["tx_search"].cache = TRUE]
    /\ UNCHANGED <<env, lastServed, configVars, wsVars, lifeVars>>

\* The caller composes the root handler.
BuildHandler ==
    /\ rootHandler = NoHandler
    /\ rootHandler' = Handler(rpcConfig, routes)
    /\ UNCHANGED <<lastServed, routeVars, configVars, wsVars, lifeVars>>

\* One request goes through the root handler.
ServeRequest ==
    /\ rootHandler # NoHandler
    /\ \E req \in Requests :
           lastServed' = [served |-> TRUE, req |-> req,
                          resp |-> ServeHTTP(rootHandler, req)]
    /\ UNCHANGED <<rootHandler, routeVars, configVars, wsVars, lifeVars>>

\* ---------------------------------------------------- Subscription Cleanup

WsConns == 1..NumWsConns

\* The remote address string of a websocket connection.
RemoteAddr(c) == "10.0.0." \o ToString(c) \o ":4000"

\* The zero value of an interface variable.
NilInterface == "nil"

\* var eventBus types.EventBusSubscriber: declared in Handler, assigned
\* nowhere, so the closure below sees the zero value.
eventBus == NilInterface

\* What eventBus.UnsubscribeAll may return when it is reached.
UnsubscribeResults == {"nil", "ErrSubscriptionNotFound", "ErrOther"}

\* websocketDisconnectFn(remoteAddr), with bus the captured eventBus and err
\* what UnsubscribeAll returns if the call reaches the registry. A method
\* call on a nil interface value panics before any registry is reached.
websocketDisconnectFn(bus, remoteAddr, err) ==
    IF bus = NilInterface
    THEN [panicked |-> TRUE, calls |-> <<>>, logs |-> <<>>, err |-> "none"]
    ELSE [panicked |-> FALSE,
          calls |-> <<remoteAddr>>,
          logs |-> IF err # "nil" /\ err # "ErrSubscriptionNotFound"
                   THEN <<[level |-> "error",
                           msg |-> "Failed to unsubscribe addr from events",
                           addr |-> remoteAddr, err |-> err]>>
                   ELSE <<>>,
          err |-> err]

WebsocketIdle ==
    /\ wsState = [c \in WsConns |-> "none"]
    /\ cleanup = [c \in WsConns |-> [state |-> "pending", err |-> "none"]]
    /\ unsubCalls = <<>>
    /\ logEntries = <<>>

\* A client upgrades on /websocket.
WsConnect(c) ==
    /\ wsState[c] = "none"
    /\ wsState' = [wsState EXCEPT ![c] = "connected"]
    /\ UNCHANGED <<cleanup, unsubCalls, logEntries>>
    /\ UNCHANGED <<routeVars, configVars, handlerVars, lifeVars>>

\* The disconnect event of a connection.
WsDisconnect(c) ==
    /\ wsState[c] = "connected"
    /\ wsState' = [wsState EXCEPT ![c] = "disconnecting"]
    /\ UNCHANGED <<cleanup, unsubCalls, logEntries>>
    /\ UNCHANGED <<routeVars, configVars, handlerVars, lifeVars>>

\* The websocket manager runs the OnDisconnect callback with the connection's
\* remote address; the connection is closed once the callback has returned.
\* A panic in the callback unwinds its caller instead.
WsCleanup(c) ==
    /\ wsState[c] = "disconnecting"
    /\ cleanup[c].state = "pending"
    /\ \E err \in UnsubscribeResults :
          LET r == websocketDisconnectFn(eventBus, RemoteAddr(c), err)
          IN  /\ unsubCalls' = unsubCalls \o r.calls
              /\ logEntries' = logEntries \o r.logs
              /\ cleanup' = [cleanup EXCEPT ![c] =
                     [state |-> IF r.panicked THEN "panicked" ELSE "returned",
                      err |-> r.err]]
              /\ wsState' = IF r.panicked THEN wsState
                            ELSE [wsState EXCEPT ![c] = "closed"]
    /\ UNCHANGED <<routeVars, configVars, handlerVars, lifeVars>>

\* ------------------------------------------------------- Server Lifecycle

Conns == 1..NumConns

Operations == {"ListenAndServe", "ListenAndServeTLS"}

LifecycleIdle ==
    /\ op = "ListenAndServe"
    /\ certOk = TRUE
    /\ ctxDone = FALSE
    /\ cancelledAt = "never"
    /\ pc = "listen"
    /\ ret = "none"
    /\ listener = "unbound"
    /\ watcher = "none"
    /\ tasks = [c \in Conns |-> "none"]
    /\ inflightAtCancel = {}
    /\ watcherCloses = 0

\* The caller picks the operation and the certificate files and may hand in
\* a context that is already cancelled.
InitLifecycle ==
    /\ op \in Operations
    /\ certOk \in (IF op = "ListenAndServeTLS" THEN BOOLEAN ELSE {TRUE})
    /\ ctxDone \in BOOLEAN
    /\ cancelledAt = (IF ctxDone THEN "before" ELSE "never")
    /\ pc = "listen"
    /\ ret = "none"
    /\ listener = "unbound"
    /\ watcher = "none"
    /\ tasks = [c \in Conns |-> "none"]
    /\ inflightAtCancel = {}
    /\ watcherCloses = 0

\* A bind whose failure is recorded but does not end the operation.
ListenContinuesOnError ==
    /\ pc = "listen"
    /\ \E bound \in BOOLEAN :
          IF bound
          THEN /\ listener' = "open"
               /\ pc' = "spawn"
               /\ ret' = ret
          ELSE /\ listener' = listener
               /\ pc' = "spawn"
               /\ ret' = "BindError"
    /\ UNCHANGED <<op, certOk, ctxDone, cancelledAt, watcher, tasks,
                   inflightAtCancel, watcherCloses>>
    /\ UNCHANGED <<routeVars, configVars, handlerVars, wsVars>>

\* A bind that is skipped when ctx is cancelled already.
ListenChecksCtx ==
    /\ pc = "listen"
    /\ IF ctxDone
       THEN /\ listener' = listener
            /\ pc' = "returned"
            /\ ret' = "ContextCanceled"
       ELSE \E bound \in BOOLEAN :
               IF bound
               THEN /\ listener' = "open"
                    /\ pc' = "spawn"
                    /\ ret' = ret
               ELSE /\ listener' = listener
                    /\ pc' = "returned"
                    /\ ret' = "BindError"
    /\ UNCHANGED <<op, certOk, ctxDone, cancelledAt, watcher, tasks,
                   inflightAtCancel, watcherCloses>>
    /\ UNCHANGED <<routeVars, configVars, handlerVars, wsVars>>

\* A bind whose failure ends the operation without an error: return nil in
\* the place of return err.
ListenSwallowsBindError ==
    /\ pc = "listen"
    /\ \E bound \in BOOLEAN :
          IF bound
          THEN /\ listener' = "open"
               /\ pc' = "spawn"
               /\ ret' = ret
          ELSE /\ listener' = listener
               /\ pc' = "returned"
               /\ ret' = "nil"
    /\ UNCHANGED <<op, certOk, ctxDone, cancelledAt, watcher, tasks,
                   inflightAtCancel, watcherCloses>>
    /\ UNCHANGED <<routeVars, configVars, handlerVars, wsVars>>

\* listener, err := rpcserver.Listen(srv.Addr, srv.Config.MaxOpenConnections);
\* if err != nil { return err }.
Listen ==
    /\ pc = "listen"
    /\ \E bound \in BOOLEAN :
          IF bound
          THEN /\ listener' = "open"
               /\ pc' = "spawn"
               /\ ret' = ret
          ELSE /\ listener' = listener
               /\ pc' = "returned"
               /\ ret' = "BindError"
    /\ UNCHANGED <<op, certOk, ctxDone, cancelledAt, watcher, tasks,
                   inflightAtCancel, watcherCloses>>
    /\ UNCHANGED <<routeVars, configVars, handlerVars, wsVars>>

\* go func() { <-ctx.Done(); listener.Close() }(): the watcher starts.
SpawnWatcher ==
    /\ pc = "spawn"
    /\ watcher' = "waiting"
    /\ pc' = "serve"
    /\ UNCHANGED <<op, certOk, ctxDone, cancelledAt, ret, listener, tasks,
                   inflightAtCancel, watcherCloses>>
    /\ UNCHANGED <<routeVars, configVars, handlerVars, wsVars>>

\* return rpcserver.Serve(listener, srv.Handler, srv.Logger,
\* serverRPCConfig(srv.Config)), or ServeTLS with the certificate files:
\* the transport configuration is derived, and ServeTLS returns at once when
\* the key pair cannot be loaded.
Serve ==
    /\ pc = "serve"
    /\ transportCfgs' =
           Append(transportCfgs, serverRPCConfig(rpcConfig, defaultWriteTimeout))
    /\ IF op = "ListenAndServeTLS" /\ ~certOk
       THEN pc' = "returned" /\ ret' = "CertError"
       ELSE pc' = "accepting" /\ ret' = ret
    /\ UNCHANGED <<op, certOk, ctxDone, cancelledAt, listener, watcher, tasks,
                   inflightAtCancel, watcherCloses>>
    /\ UNCHANGED <<rpcConfig, defaultWriteTimeout>>
    /\ UNCHANGED <<routeVars, handlerVars, wsVars>>

\* The serve loop accepts a connection and hands it to a new handler task.
Accept(c) ==
    /\ pc = "accepting"
    /\ listener = "open"
    /\ tasks[c] = "none"
    /\ tasks' = [tasks EXCEPT ![c] = "inflight"]
    /\ UNCHANGED <<op, certOk, ctxDone, cancelledAt, pc, ret, listener, watcher,
                   inflightAtCancel, watcherCloses>>
    /\ UNCHANGED <<routeVars, configVars, handlerVars, wsVars>>

\* Accept fails on the closed listener: the serve loop ends and its error is
\* returned to the caller.
ServeReturn ==
    /\ pc = "accepting"
    /\ listener = "closed"
    /\ pc' = "returned"
    /\ ret' = "ErrListenerClosed"
    /\ UNCHANGED <<op, certOk, ctxDone, cancelledAt, listener, watcher, tasks,
                   inflightAtCancel, watcherCloses>>
    /\ UNCHANGED <<routeVars, configVars, handlerVars, wsVars>>

\* An unrecoverable transport error ends the serve loop, which closes the
\* listener and returns the error.
TransportFault ==
    /\ pc = "accepting"
    /\ listener = "open"
    /\ listener' = "closed"
    /\ pc' = "returned"
    /\ ret' = "TransportError"
    /\ UNCHANGED <<op, certOk, ctxDone, cancelledAt, watcher, tasks,
                   inflightAtCancel, watcherCloses>>
    /\ UNCHANGED <<routeVars, configVars, handlerVars, wsVars>>

\* A handler task writes its response and ends.
HandlerFinish(c) ==
    /\ tasks[c] = "inflight"
    /\ tasks' = [tasks EXCEPT ![c] = "done"]
    /\ UNCHANGED <<op, certOk, ctxDone, cancelledAt, pc, ret, listener, watcher,
                   inflightAtCancel, watcherCloses>>
    /\ UNCHANGED <<routeVars, configVars, handlerVars, wsVars>>

\* The owner of the context cancels it.
Cancel ==
    /\ ~ctxDone
    /\ ctxDone' = TRUE
    /\ inflightAtCancel' = {c \in Conns : tasks[c] = "inflight"}
    /\ cancelledAt' = pc
    /\ UNCHANGED <<op, certOk, pc, ret, listener, watcher, tasks,
                   watcherCloses>>
    /\ UNCHANGED <<routeVars, configVars, handlerVars, wsVars>>

\* A watcher that does not wait for ctx.
WatcherWakeEarly ==
    /\ watcher = "waiting"
    /\ watcher' = "woken"
    /\ UNCHANGED <<op, certOk, ctxDone, cancelledAt, pc, ret, listener, tasks,
                   inflightAtCancel, watcherCloses>>
    /\ UNCHANGED <<routeVars, configVars, handlerVars, wsVars>>

\* <-ctx.Done() in the watcher.
WatcherWake ==
    /\ watcher = "waiting"
    /\ ctxDone
    /\ watcher' = "woken"
    /\ UNCHANGED <<op, certOk, ctxDone, cancelledAt, pc, ret, listener, tasks,
                   inflightAtCancel, watcherCloses>>
    /\ UNCHANGED <<routeVars, configVars, handlerVars, wsVars>>

\* A watcher that returns without closing the listener.
WatcherForgetsClose ==
    /\ watcher = "woken"
    /\ watcher' = "done"
    /\ UNCHANGED <<op, certOk, ctxDone, cancelledAt, pc, ret, listener, tasks,
                   inflightAtCancel, watcherCloses>>
    /\ UNCHANGED <<routeVars, configVars, handlerVars, wsVars>>

\* A watcher that shuts the whole server down: the listener and every
\* connection being served.
WatcherClosesConnections ==
    /\ watcher = "woken"
    /\ listener' = "closed"
    /\ watcherCloses' = watcherCloses + 1
    /\ watcher' = "done"
    /\ tasks' = [c \in Conns |->
                    IF tasks[c] = "inflight" THEN "aborted" ELSE tasks[c]]
    /\ UNCHANGED <<op, certOk, ctxDone, cancelledAt, pc, ret, inflightAtCancel>>
    /\ UNCHANGED <<routeVars, configVars, handlerVars, wsVars>>

\* A watcher whose Close of a listener that is closed already overwrites
\* the operation's result with the error of that Close.
WatcherCloseReportsError ==
    /\ watcher = "woken"
    /\ ret' = IF listener = "closed" THEN "CloseError" ELSE ret
    /\ listener' = "closed"
    /\ watcherCloses' = watcherCloses + 1
    /\ watcher' = "done"
    /\ UNCHANGED <<op, certOk, ctxDone, cancelledAt, pc, tasks,
                   inflightAtCancel>>
    /\ UNCHANGED <<routeVars, configVars, handlerVars, wsVars>>

\* listener.Close() in the watcher, after which the watcher ends.
WatcherClose ==
    /\ watcher = "woken"
    /\ listener' = "closed"
    /\ watcherCloses' = watcherCloses + 1
    /\ watcher' = "done"
    /\ UNCHANGED <<op, certOk, ctxDone, cancelledAt, pc, ret, tasks,
                   inflightAtCancel>>
    /\ UNCHANGED <<routeVars, configVars, handlerVars, wsVars>>

\* ------------------------------------------------------ specifications

NextRoutes == BuildRoutes

InitSpecRoutes == InitRoutes /\ ConfigIdle /\ HandlerIdle /\ WebsocketIdle
    /\ LifecycleIdle

SpecRoutes == InitSpecRoutes /\ [][NextRoutes]_vars

NextConfig == MapConfig

InitSpecConfig == RoutesBuilt /\ InitConfig /\ HandlerIdle /\ WebsocketIdle
    /\ LifecycleIdle

SpecConfig == InitSpecConfig /\ [][NextConfig]_vars

NextHandler ==
    \/ BuildHandler
    \/ ServeRequest

InitSpecHandler == RoutesBuilt /\ InitHandler /\ WebsocketIdle
    /\ LifecycleIdle

SpecHandler == InitSpecHandler /\ [][NextHandler]_vars

HandlerBuilt ==
    /\ rootHandler = Handler(rpcConfig, routes)
    /\ lastServed = NoRequest

NextWebsocket ==
    \E c \in WsConns :
        \/ WsConnect(c)
        \/ WsDisconnect(c)
        \/ WsCleanup(c)

InitSpecWebsocket == RoutesBuilt /\ ConfigIdle /\ HandlerBuilt /\ WebsocketIdle
    /\ LifecycleIdle

SpecWebsocket == InitSpecWebsocket /\ [][NextWebsocket]_vars

NextLifecycle ==
    \/ Listen
    \/ SpawnWatcher
    \/ Serve
    \/ \E c \in Conns : Accept(c)
    \/ ServeReturn
    \/ TransportFault
    \/ \E c \in Conns : HandlerFinish(c)
    \/ Cancel
    \/ WatcherWake
    \/ WatcherClose

InitSpec ==
    /\ RoutesBuilt /\ ConfigIdle /\ HandlerBuilt /\ WebsocketIdle
    /\ InitLifecycle

Spec == InitSpec /\ [][NextLifecycle]_vars

\* The scheduler runs every goroutine that can take a step: the caller's
\* goroutine, the watcher and the handler tasks. Cancellation, arriving
\* connections and transport faults are up to the environment.
FairSpec ==
    /\ Spec
    /\ WF_vars(Listen)
    /\ WF_vars(SpawnWatcher)
    /\ WF_vars(Serve)
    /\ WF_vars(ServeReturn)
    /\ WF_vars(WatcherWake)
    /\ WF_vars(WatcherClose)
    /\ \A c \in Conns : WF_vars(HandlerFinish(c))

\* Every task that is runnable is eventually scheduled: a callback that has
\* been invoked runs.
FairSpecWebsocket ==
    /\ SpecWebsocket
    /\ \A c \in WsConns : WF_vars(WsCleanup(c))

\* The whole server around one route table: the handler is composed from
\* the table, requests are served, a websocket client comes and goes, and a
\* lifecycle operation runs and is cancelled, in any interleaving. One
\* websocket connection and one accepted connection are followed.
NextServer ==
    \/ BuildHandler
    \/ ServeRequest
    \/ \E c \in {1} : WsConnect(c)
    \/ \E c \in {1} : WsDisconnect(c)
    \/ \E c \in {1} : WsCleanup(c)
    \/ Listen
    \/ SpawnWatcher
    \/ Serve
    \/ \E c \in {1} : Accept(c)
    \/ ServeReturn
    \/ TransportFault
    \/ \E c \in {1} : HandlerFinish(c)
    \/ Cancel
    \/ WatcherWake
    \/ WatcherClose

InitSpecServer ==
    /\ RoutesBuilt /\ ConfigIdle /\ HandlerIdle /\ WebsocketIdle
    /\ InitLifecycle

SpecServer == InitSpecServer /\ [][NextServer]_vars

\* ------------------------------------------------------------- claims

\* C1: for both operations, once the bind has succeeded, a cancelled context
\* leads to the listener being closed, and a closed listener leads to the
\* operation having returned, under the fairness of FairSpec.
C1_CancelLeadsToReturn ==
    /\ (listener # "unbound" /\ ctxDone) ~> (listener = "closed")
    /\ (listener = "closed") ~> (pc = "returned")
    /\ (listener # "unbound" /\ ctxDone)
           ~> (listener = "closed" /\ pc = "returned")

\* C1 witness: ListenAndServeTLS was serving, the context was cancelled, the
\* watcher closed the listener and the operation returned the serve error.
C1_Witness ==
    /\ op = "ListenAndServeTLS"
    /\ ctxDone
    /\ watcher = "done"
    /\ watcherCloses = 1
    /\ listener = "closed"
    /\ pc = "returned"
    /\ ret = "ErrListenerClosed"

\* C2: no step of the lifecycle takes a handler task that is being served out
\* of service other than by its own completion, and every task that was
\* being served when the context was cancelled stays in service until it
\* completes, which it eventually does, under the fairness of FairSpec.
C2_InflightRequestsDrain ==
    /\ [][\A c \in Conns :
             tasks[c] = "inflight" => tasks'[c] \in {"inflight", "done"}]_vars
    /\ [](\A c \in inflightAtCancel : tasks[c] \in {"inflight", "done"})
    /\ \A c \in Conns : (c \in inflightAtCancel) ~> (tasks[c] = "done")

\* C2 witness: two requests were being served when the context was
\* cancelled; the watcher has closed the listener and the operation has
\* returned; one request has completed since and the other is still served.
C2_Witness ==
    /\ inflightAtCancel = Conns
    /\ watcher = "done"
    /\ listener = "closed"
    /\ pc = "returned"
    /\ \E c, d \in Conns : tasks[c] = "done" /\ tasks[d] = "inflight"

\* The number of UnsubscribeAll calls keyed by the address addr.
UnsubscribeCallsFor(addr) ==
    Cardinality({i \in 1..Len(unsubCalls) : unsubCalls[i] = addr})

\* The number of error entries logged that carry the address addr.
ErrorEntriesFor(addr) ==
    Cardinality({i \in 1..Len(logEntries) : logEntries[i].addr = addr})

\* The disconnect callback of connection c has run (to its return or to a
\* panic).
CleanupRan(c) == cleanup[c].state # "pending"

\* C3, as claimed: once the disconnect callback of a connection has run,
\* UnsubscribeAll has been called exactly once with that connection's remote
\* address, and every call made was keyed by the address of a connection
\* whose callback ran.
C3_UnsubscribeOncePerDisconnect ==
    /\ \A c \in WsConns :
          CleanupRan(c) =>
              UnsubscribeCallsFor(RemoteAddr(c)) = 1
    /\ \A i \in 1..Len(unsubCalls) :
          \E c \in WsConns : CleanupRan(c) /\ unsubCalls[i] = RemoteAddr(c)

\* C4, as claimed: once the disconnect callback of a connection has run, it
\* has returned to its caller with nothing propagated, and it logged exactly
\* one error entry carrying the remote address if UnsubscribeAll returned an
\* error other than "subscription not found", and none otherwise.
C4_CleanupLogsAndSwallows ==
    \A c \in WsConns :
        CleanupRan(c) =>
            LET n == ErrorEntriesFor(RemoteAddr(c))
            IN  /\ cleanup[c].state = "returned"
                /\ cleanup[c].err \in UnsubscribeResults
                /\ cleanup[c].err = "ErrOther" => n = 1
                /\ cleanup[c].err \in {"nil", "ErrSubscriptionNotFound"}
                       => n = 0

\* C5, as claimed: a websocket connection that is disconnecting is eventually
\* closed.
C5_DisconnectingLeadsToClosed ==
    \A c \in WsConns :
        (wsState[c] = "disconnecting") ~> (wsState[c] = "closed")

\* The table of section 4.1: method -> ordered parameter names, cacheable.
CanonicalTable ==
       ("blockchain" :> [params |-> <<"minHeight", "maxHeight">>,
                         cacheable |-> TRUE])
    @@ ("consensus_params" :> [params |-> <<"height">>, cacheable |-> TRUE])
    @@ ("block" :> [params |-> <<"height">>, cacheable |-> TRUE])
    @@ ("block_by_hash" :> [params |-> <<"hash">>, cacheable |-> TRUE])
    @@ ("block_results" :> [params |-> <<"height">>, cacheable |-> TRUE])
    @@ ("commit" :> [params |-> <<"height">>, cacheable |-> TRUE])
    @@ ("validators" :> [params |-> <<"height", "page", "per_page">>,
                         cacheable |-> TRUE])
    @@ ("tx" :> [params |-> <<"hash", "prove">>, cacheable |-> TRUE])
    @@ ("tx_search" :> [params |-> <<"query", "prove", "page", "per_page",
                                     "order_by">>,
                        cacheable |-> FALSE])
    @@ ("block_search" :> [params |-> <<"query", "page", "per_page",
                                        "order_by">>,
                           cacheable |-> FALSE])

\* C6: whatever the stores hold, the table Routes returns has exactly the ten
\* method names of section 4.1, each with the tabulated ordered parameter
\* names and cacheable flag; only tx_search and block_search are not
\* cacheable.
C6_RoutesExactTable ==
    routes # NoRoutes =>
        /\ DOMAIN routes = DOMAIN CanonicalTable
        /\ Cardinality(DOMAIN routes) = 10
        /\ \A m \in DOMAIN routes :
              /\ routes[m].argNames = CanonicalTable[m].params
              /\ routes[m].cache = CanonicalTable[m].cacheable
        /\ {m \in DOMAIN routes : ~routes[m].cache}
               = {"tx_search", "block_search"}

\* C6 witness: the table has been built from stores that differ.
C6_Witness ==
    /\ routes # NoRoutes
    /\ env.StateStore = {}
    /\ env.BlockStore = Heights
    /\ env.EventSinks = <<"psql">>

\* C7: every transport configuration produced has write timeout T + 1 time
\* unit (in the duration type's arithmetic) when the default D <= T, and D
\* when D > T.
C7_WriteTimeoutDerivation ==
    \A i \in 1..Len(transportCfgs) :
        LET D == defaultWriteTimeout
            T == rpcConfig.TimeoutBroadcastTxCommit
        IN  /\ D <= T =>
                transportCfgs[i].WriteTimeout = WrapDuration(T + Second)
            /\ D > T => transportCfgs[i].WriteTimeout = D

\* C7 witness: a configuration was mapped with D equal to T.
C7_Witness ==
    /\ Len(transportCfgs) > 0
    /\ defaultWriteTimeout = rpcConfig.TimeoutBroadcastTxCommit
    /\ transportCfgs[1].WriteTimeout = defaultWriteTimeout + Second

\* C8, as claimed: every transport configuration produced has a write timeout
\* strictly greater than the broadcast-commit timeout T, for every
\* representable T.
C8_WriteTimeoutExceedsCommit ==
    \A i \in 1..Len(transportCfgs) :
        transportCfgs[i].WriteTimeout > rpcConfig.TimeoutBroadcastTxCommit

\* C9: the root handler is the CORS wrapper around the multiplexer exactly
\* when IsCorsEnabled holds; otherwise it is the multiplexer itself, and a
\* request gets the multiplexer's response, without CORS headers.
C9_CorsIffEnabled ==
    rootHandler # NoHandler =>
        LET mux == NewServeMux(routes)
        IN  /\ IsCorsEnabled(rpcConfig) <=> rootHandler.kind = "cors"
            /\ IsCorsEnabled(rpcConfig) => rootHandler.next = mux
            /\ ~IsCorsEnabled(rpcConfig) =>
                  /\ rootHandler = mux
                  /\ lastServed.served =>
                        /\ lastServed.resp = MuxServeHTTP(mux, lastServed.req)
                        /\ ~lastServed.resp.corsHeaders
                        /\ lastServed.resp.trace[1] = "mux"

\* C9 witness: with CORS disabled, a cross-origin request was served.
C9_Witness ==
    /\ lastServed.served
    /\ ~IsCorsEnabled(rpcConfig)
    /\ lastServed.req.origin = "b.example"
    /\ lastServed.req.path = "/block"

\* A request from an origin the configured CORS options do not allow.
Disallowed(req) ==
    /\ req.origin # ""
    /\ ~OriginAllowed(CorsNew(rpcConfig), req.origin)

\* The stages of a response's trace that belong to dispatch.
TouchesDispatch(resp) ==
    \E i \in 1..Len(resp.trace) :
        resp.trace[i] \in {"mux", "rpc", "jsonrpc", "websocket"}

\* Every dispatch stage of the trace comes after a CORS stage.
CorsFirst(resp) ==
    /\ resp.trace[1] = "cors"
    /\ \A i \in 1..Len(resp.trace) :
          resp.trace[i] \in {"mux", "rpc", "jsonrpc", "websocket"} => i > 1

\* C10, as claimed: with CORS enabled every request passes the CORS stage
\* before any dispatch stage, and a request from a disallowed origin never
\* touches dispatch.
C10_DisallowedNeverDispatched ==
    (lastServed.served /\ IsCorsEnabled(rpcConfig)) =>
        /\ CorsFirst(lastServed.resp)
        /\ Disallowed(lastServed.req) => ~TouchesDispatch(lastServed.resp)

\* C10, amended: with CORS enabled every request, on every path, passes the
\* CORS stage before any dispatch stage; a preflight request (one from a
\* disallowed origin included) is answered by the CORS stage and never touches
\* dispatch, and any other request is dispatched, with CORS headers only if
\* its origin is allowed.
C10_CorsOutermost ==
    (lastServed.served /\ IsCorsEnabled(rpcConfig)) =>
        /\ CorsFirst(lastServed.resp)
        /\ lastServed.req.preflight => ~TouchesDispatch(lastServed.resp)
        /\ ~lastServed.req.preflight => TouchesDispatch(lastServed.resp)
        /\ Disallowed(lastServed.req) => ~lastServed.resp.corsHeaders

\* C10 witness: with CORS enabled, a preflight request from a disallowed
\* origin for the websocket path was stopped at the CORS stage.
C10_Witness ==
    /\ lastServed.served
    /\ IsCorsEnabled(rpcConfig)
    /\ lastServed.req.path = "/websocket"
    /\ lastServed.req.preflight
    /\ Disallowed(lastServed.req)
    /\ lastServed.resp.trace = <<"cors">>


\* C11: for both operations, a failed bind makes the operation return the
\* bind error in that very step, and from then on the call does nothing
\* more: no watcher exists, no listener is bound, no connection has been
\* accepted or dispatched, no transport configuration has been derived, and
\* the call never leaves the returned state to bind again.
C11_BindFailureReturnsAtOnce ==
    /\ [](ret = "BindError" =>
            /\ pc = "returned"
            /\ listener = "unbound"
            /\ watcher = "none"
            /\ watcherCloses = 0
            /\ \A c \in Conns : tasks[c] = "none"
            /\ transportCfgs = <<>>)
    /\ [][ret # "BindError" /\ ret' = "BindError" =>
              pc = "listen" /\ pc' = "returned"]_vars
    /\ [][ret = "BindError" =>
              UNCHANGED <<pc, ret, listener, watcher, tasks>>]_vars

\* C11 witness: ListenAndServeTLS failed to bind and returned the bind
\* error; the context was cancelled after that, and still no watcher exists.
C11_Witness ==
    /\ op = "ListenAndServeTLS"
    /\ ret = "BindError"
    /\ pc = "returned"
    /\ cancelledAt = "returned"
    /\ watcher = "none"
    /\ listener = "unbound"

\* C12, as claimed: for both operations, whenever the operation has returned
\* after a successful bind, the listener is closed, also when the
\* certificate and key files of ListenAndServeTLS cannot be loaded.
C12_ReturnedImpliesListenerClosed ==
    (pc = "returned" /\ listener # "unbound") => listener = "closed"

\* C13: every transport configuration produced carries the body and header
\* limits of the server configuration unchanged; every step of the mapper
\* appends one new transport configuration and leaves the server
\* configuration, the broadcast-commit timeout included, and the transport
\* configurations produced before as they were.
C13_MapperCopiesLimits ==
    /\ [](\A i \in 1..Len(transportCfgs) :
             /\ transportCfgs[i].MaxBodyBytes = rpcConfig.MaxBodyBytes
             /\ transportCfgs[i].MaxHeaderBytes = rpcConfig.MaxHeaderBytes)
    /\ [][/\ rpcConfig' = rpcConfig
          /\ Len(transportCfgs') = Len(transportCfgs) + 1
          /\ SubSeq(transportCfgs', 1, Len(transportCfgs)) = transportCfgs
         ]_vars

\* C13 witness: the server was started twice with a body limit that differs
\* from the header limit, and both transport configurations carry the two
\* limits.
C13_Witness ==
    /\ Len(transportCfgs) = MaxStarts
    /\ rpcConfig.MaxBodyBytes = MaxBytes
    /\ rpcConfig.MaxHeaderBytes = MaxBytes - 1
    /\ \A i \in 1..Len(transportCfgs) :
           /\ transportCfgs[i].MaxBodyBytes = MaxBytes
           /\ transportCfgs[i].MaxHeaderBytes = MaxBytes - 1

\* C14: once built, the route table is never modified: it is the table
\* Routes returned in every state, and no step changes it, be it the
\* composition of the handler, a request served, a websocket connection
\* made or dropped, the disconnect cleanup, the cancellation of the context
\* or any step of a lifecycle operation.
C14_RouteTableImmutable ==
    /\ [](routes = Routes(BuiltEnv.StateStore, BuiltEnv.BlockStore,
                          BuiltEnv.EventSinks))
    /\ [][routes' = routes]_vars

\* C14 witness: the handler was composed from the table, a request to a
\* method of the table was served, the disconnect cleanup of a websocket
\* connection has run, and the operation was cancelled and has returned; the
\* table still answers to the section 4.1 tabulation.
C14_Witness ==
    /\ rootHandler # NoHandler
    /\ lastServed.served
    /\ lastServed.req.path = MethodPath("tx_search")
    /\ \E c \in WsConns : CleanupRan(c)
    /\ ctxDone
    /\ watcher = "done"
    /\ pc = "returned"
    /\ DOMAIN routes = DOMAIN CanonicalTable
    /\ ~routes["tx_search"].cache

\* C15, as claimed: whenever the disconnect cleanup has run for a
\* connection, the event bus it used was bound to an initialized registry,
\* so the callback did not fault on an unset reference and its
\* unsubscribe-all call for the connection's address was issued.
C15_EventBusBoundAtCleanup ==
    \A c \in WsConns :
        CleanupRan(c) =>
            /\ eventBus # NilInterface
            /\ cleanup[c].state # "panicked"
            /\ UnsubscribeCallsFor(RemoteAddr(c)) >= 1

\* C16: the watcher gets past its wait, and closes the listener, only when
\* the context has been cancelled; one watcher is spawned per call, at the
\* spawn step that follows the bind, and a call comes to that step once;
\* the watcher closes the listener once and is done for good.
C16_WatcherClosesOnceAfterCancel ==
    /\ [](watcher \in {"woken", "done"} => ctxDone)
    /\ [](watcherCloses > 0 => ctxDone /\ watcher = "done")
    /\ [](watcherCloses <= 1)
    /\ [][watcherCloses' # watcherCloses =>
              /\ ctxDone
              /\ watcher = "woken" /\ watcher' = "done"
              /\ watcherCloses = 0 /\ watcherCloses' = 1
              /\ listener' = "closed"]_vars
    /\ [][watcher' = "waiting" /\ watcher # "waiting" =>
              watcher = "none" /\ pc = "spawn" /\ pc' = "serve"]_vars
    /\ [][pc' = "spawn" => pc \in {"listen", "spawn"}]_vars
    /\ [][watcher = "done" => watcher' = "done"]_vars

\* C16 witness: the context was cancelled while ListenAndServe was
\* accepting; the watcher has closed the open listener, once, and is done,
\* and the serve loop has not noticed yet.
C16_Witness ==
    /\ op = "ListenAndServe"
    /\ cancelledAt = "accepting"
    /\ watcher = "done"
    /\ watcherCloses = 1
    /\ listener = "closed"
    /\ pc = "accepting"

\* C17: a spawned watcher is done only if the context has been cancelled,
\* and stays in its wait for as long as it has not; once the context is
\* cancelled a spawned watcher eventually is done, under the fairness of
\* FairSpec. In particular, when the operation has returned after a
\* transport fault without cancellation, the watcher is still waiting, and
\* when it closes a listener that is closed already, nothing but the
\* watcher's own state changes.
C17_WatcherEndsIffCancelled ==
    /\ [](watcher = "done" => ctxDone)
    /\ [][watcher = "waiting" /\ ~ctxDone' => watcher' = "waiting"]_vars
    /\ (ctxDone /\ watcher # "none") ~> (watcher = "done")
    /\ (ctxDone /\ pc = "spawn") ~> (watcher = "done")
    /\ [](pc = "returned" /\ ret = "TransportError" /\ ~ctxDone =>
              watcher = "waiting" /\ listener = "closed")
    /\ [][watcher = "woken" /\ watcher' = "done" /\ listener = "closed" =>
              /\ UNCHANGED <<pc, ret, listener, tasks, inflightAtCancel>>
              /\ UNCHANGED <<op, certOk, ctxDone, cancelledAt>>
              /\ UNCHANGED <<routeVars, configVars, handlerVars, wsVars>>
         ]_vars

\* C17 witness: the operation returned after a transport fault, which
\* closed the listener; the context was cancelled after the return, and the
\* watcher woke, closed the closed listener and is done.
C17_Witness ==
    /\ pc = "returned"
    /\ ret = "TransportError"
    /\ cancelledAt = "returned"
    /\ watcher = "done"
    /\ watcherCloses = 1
    /\ listener = "closed"

\* C18: the operation attempts the bind whatever the state of the context:
\* it leaves its first step only with a bound listener or with the bind
\* error. Once the context is cancelled, be it before the call or between
\* the bind and the start of the serve loop, the operation eventually
\* returns, with an error, under the fairness of FairSpec; so no behaviour
\* stays in the serve loop for ever after the cancellation.
C18_CancelledEarlyStillBindsAndReturns ==
    /\ [][pc = "listen" /\ pc' # "listen" =>
              \/ listener' = "open" /\ pc' = "spawn"
              \/ ret' = "BindError" /\ pc' = "returned"]_vars
    /\ [](pc = "returned" => ret = "BindError" \/ listener # "unbound")
    /\ ctxDone ~> (pc = "returned" /\ ret \notin {"none", "nil"})
    /\ (ctxDone /\ pc = "accepting") ~> (pc # "accepting")
    /\ ~<>[](ctxDone /\ pc = "accepting")

\* C18 witness: the context was cancelled before ListenAndServe was called;
\* the bind was made all the same and succeeded, the watcher closed the
\* listener and the serve loop returned its error.
C18_Witness ==
    /\ op = "ListenAndServe"
    /\ cancelledAt = "before"
    /\ listener = "closed"
    /\ watcherCloses = 1
    /\ pc = "returned"
    /\ ret = "ErrListenerClosed"
    /\ Len(transportCfgs) = 1

\* The errors the serve call of an operation returns: the certificate error
\* of ServeTLS and the errors that end the serve loop.
ServeErrors == {"CertError", "ErrListenerClosed", "TransportError"}

\* C19: an operation that has returned has returned an error, never
\* nothing: the bind error when the bind failed, and otherwise the error of
\* its serve call. A return out of the serve loop leaves the listener
\* closed and carries the serve loop's error both when the cancellation
\* closed the listener and when a fault did; no returned value stands for
\* the cancellation as such. Before the return there is no result.
C19_ReturnsAlwaysAnError ==
    /\ [](pc = "returned" => ret \in {"BindError"} \cup ServeErrors)
    /\ [](pc = "returned" => (ret = "BindError" <=> listener = "unbound"))
    /\ [](pc # "returned" => ret = "none")
    /\ [][pc = "accepting" /\ pc' = "returned" =>
              /\ listener' = "closed"
              /\ ret' \in ServeErrors
              /\ ctxDone' = ctxDone]_vars
    /\ [][pc = "returned" => pc' = "returned" /\ ret' = ret]_vars

\* C19 witness: the context was cancelled while ListenAndServeTLS was
\* accepting, and before the watcher got to close the listener a transport
\* fault ended the serve loop; the operation returned the fault's error
\* although the context is cancelled.
C19_Witness ==
    /\ op = "ListenAndServeTLS"
    /\ certOk
    /\ cancelledAt = "accepting"
    /\ pc = "returned"
    /\ ret = "TransportError"
    /\ watcherCloses = 0
    /\ listener = "closed"

=============================================================================
